---- MODULE Spec2Model ----
(***************************************************************************)
(* Model of the term-annotation post-processor of pdf-translator           *)
(* (pdf_translator/post_processor/post_processor.py).                      *)
(*                                                                         *)
(* A text is a sequence of characters; a character is a one-element        *)
(* string.  "J" and "K" stand for two characters of the Japanese blocks    *)
(* matched by japanese_pattern, "(" and ")" stand for the full-width       *)
(* parentheses U+FF08 and U+FF09 of the default annotation format, "a",    *)
(* "b", "A" are ASCII letters, " " is the plain space, "\n" and "\r" the   *)
(* line-ending characters.                                                 *)
(***************************************************************************)
EXTENDS Integers, Sequences, FiniteSets, Bags, TLC

(***************************************************************************)
(* Bounds of the model.                                                    *)
(***************************************************************************)
MaxTextLen == 3

MaxTerms == 3

MaxPlainLen == 4

MaxSessionLen == 2

MaxSessionTerms == 2

MaxCalls == 2

(***************************************************************************)
(* Character classes.                                                      *)
(***************************************************************************)
JapaneseChars == {"J", "K"}

AsciiChars == {"a", "b", "A", "B", "1"}

WhitespaceChars == {" ", "\n", "\r", "\t"}

\* re.IGNORECASE on an escaped literal: characters are compared after case folding
Lower(c) == IF c = "A" THEN "a" ELSE IF c = "B" THEN "b" ELSE c

\* None, the absent translated_text: a value that is no text
None == <<"<None>">>

(***************************************************************************)
(* Generic helpers on texts.                                               *)
(***************************************************************************)
Min(a, b) == IF a < b THEN a ELSE b

\* Python slice text[i:j] with 0-based offsets, 0 <= i, j
Slice(text, i, j) == SubSeq(text, i + 1, Min(j, Len(text)))

\* all sequences over S of length at most n
SeqsUpTo(S, n) == UNION {[1..k -> S] : k \in 0..n}

\* the pattern re.escape(pat) matches text at 0-based offset i
MatchesAt(text, pat, i, case_sensitive) ==
    /\ i + Len(pat) <= Len(text)
    /\ \A k \in 1..Len(pat) :
          IF case_sensitive THEN text[i + k] = pat[k]
          ELSE Lower(text[i + k]) = Lower(pat[k])

\* re.finditer(re.escape(pat), text, flags): the 0-based start offsets of the
\* successive non-overlapping matches, scanning from offset i
RECURSIVE FindIter(_, _, _, _)
FindIter(text, pat, i, case_sensitive) ==
    IF i + Len(pat) > Len(text) THEN <<>>
    ELSE IF MatchesAt(text, pat, i, case_sensitive)
         THEN <<i>> \o FindIter(text, pat, i + Len(pat), case_sensitive)
         ELSE FindIter(text, pat, i + 1, case_sensitive)

\* str.strip() == "": every character is whitespace
IsBlank(s) == \A k \in 1..Len(s) : s[k] \in WhitespaceChars

(***************************************************************************)
(* str.format(translation=..., original=...).  A template is a sequence    *)
(* of tokens: a character, a brace, or the text of a replacement field     *)
(* written between braces.                                                 *)
(***************************************************************************)
FormatOk(value) == [ok |-> TRUE, value |-> value, error |-> ""]

FormatError(msg) == [ok |-> FALSE, value |-> <<>>, error |-> msg]

\* a formatter that puts nothing for a field it does not know
FieldLenient(name, translation, original) ==
    IF name = "translation" THEN FormatOk(translation)
    ELSE IF name = "original" THEN FormatOk(original)
    ELSE FormatOk(<<>>)

\* the value of one replacement field
Field(name, translation, original) ==
    IF name = "translation" THEN FormatOk(translation)
    ELSE IF name = "original" THEN FormatOk(original)
    ELSE IF name = "original[1]"
         THEN IF Len(original) > 1 THEN FormatOk(<<original[2]>>)
              ELSE FormatError("string index out of range")
    ELSE IF name = ""
         THEN FormatError("Replacement index 0 out of range for positional args tuple")
    ELSE FormatError("'" \o name \o "'")

RECURSIVE Format(_, _, _)
Format(template, translation, original) ==
    IF template = <<>> THEN FormatOk(<<>>)
    ELSE
      LET c == Head(template)
          rest == Tail(template)
          Cons(prefix, r) == IF r.ok THEN FormatOk(prefix \o r.value) ELSE r
      IN
      IF c = "{" THEN
           IF rest = <<>> THEN FormatError("Single '{' encountered in format string")
           ELSE IF Head(rest) = "{"
                THEN Cons(<<"{">>, Format(Tail(rest), translation, original))
           ELSE IF Head(rest) = "}"
                THEN LET f == Field("", translation, original)
                     IN IF f.ok THEN Cons(f.value, Format(Tail(rest), translation, original))
                        ELSE f
           ELSE IF Len(rest) < 2 \/ rest[2] # "}"
                THEN FormatError("expected '}' before end of string")
           ELSE LET f == Field(Head(rest), translation, original)
                IN IF f.ok
                   THEN Cons(f.value, Format(SubSeq(rest, 3, Len(rest)), translation, original))
                   ELSE f
      ELSE IF c = "}" THEN
           IF rest # <<>> /\ Head(rest) = "}"
           THEN Cons(<<"}">>, Format(Tail(rest), translation, original))
           ELSE FormatError("Single '}' encountered in format string")
      ELSE Cons(<<c>>, Format(rest, translation, original))

(***************************************************************************)
(* PostProcessorConfig.  DefaultConfig holds the dataclass defaults.       *)
(***************************************************************************)
DefaultFormat == <<"{", "translation", "}", "(", "{", "original", "}", ")">>

DefaultConfig ==
    [add_source_terms |-> TRUE,
     source_term_format |-> DefaultFormat,
     spacing_adjustment |-> TRUE,
     preserve_line_breaks |-> TRUE,
     min_term_length |-> 2,
     max_annotations_per_term |-> 1,
     case_sensitive |-> FALSE]

(***************************************************************************)
(* _annotate_term_with_positions                                           *)
(***************************************************************************)
\* self._annotation_count.get(original_term, 0)
CountGet(count, original) == CopiesIn(original, count)

\* a splice that forgets to count
CountIncrementSkipped(count, original) == count

\* self._annotation_count[original_term] = self._annotation_count.get(original_term, 0) + 1
CountIncrement(count, original) == count (+) SetToBag({original})

\* the overlap test of one candidate span against the recorded spans
Overlaps(start, end, annotated_positions) ==
    \E p \in annotated_positions : ~(end <= p[1] \/ start >= p[2])

\* a scan that starts from the last match
RECURSIVE Reversed(_)
Reversed(seq) == IF seq = <<>> THEN <<>> ELSE Append(Reversed(Tail(seq)), Head(seq))

FreeMatchesFromEnd(text, translated_term, annotated_positions, case_sensitive) ==
    Reversed(SelectSeq(FindIter(text, translated_term, 0, case_sensitive),
                       LAMBDA s : ~Overlaps(s, s + Len(translated_term), annotated_positions)))

\* the start offsets of the matches the loop accepts, in scan order
FreeMatches(text, translated_term, annotated_positions, case_sensitive) ==
    SelectSeq(FindIter(text, translated_term, 0, case_sensitive),
              LAMBDA s : ~Overlaps(s, s + Len(translated_term), annotated_positions))

\* before + annotation + after
Splice(text, start, end, annotation) ==
    Slice(text, 0, start) \o annotation \o Slice(text, end, Len(text))

\* Result of one call: the new text, the number of annotations added, the
\* new recorded spans, the updated counter table, and the exception raised
\* (ok = FALSE) if any.  start/end give the replaced span when added = 1.
_annotate_term_with_positions(cfg, text, original_term, translated_term, annotated_positions, count) ==
    LET nothing == [ok |-> TRUE, error |-> "", text |-> text, added |-> 0,
                    positions |-> {}, count |-> count, start |-> 0, end |-> 0,
                    annotation |-> <<>>]
    IN
    IF translated_term = <<>> \/ IsBlank(translated_term) THEN nothing
    ELSE
      LET f == Format(cfg.source_term_format, translated_term, original_term)
      IN
      IF ~f.ok THEN [nothing EXCEPT !.ok = FALSE, !.error = f.error]
      ELSE
        LET free == FreeMatches(text, translated_term, annotated_positions,
                                cfg.case_sensitive)
        IN
        IF free # <<>> /\ CountGet(count, original_term) = 0
        THEN LET start == Head(free)
                 end == start + Len(translated_term)
             IN [ok |-> TRUE, error |-> "",
                 text |-> Splice(text, start, end, f.value),
                 added |-> 1,
                 positions |-> {<<start, start + Len(f.value)>>},
                 count |-> CountIncrement(count, original_term),
                 start |-> start, end |-> end,
                 annotation |-> f.value]
        ELSE nothing

(***************************************************************************)
(* _add_source_term_annotations                                            *)
(***************************************************************************)
\* sorted(term_translations.items(), key=len(translation), reverse=True):
\* a stable sort, terms of equal key keep the order of the mapping
RECURSIVE InsertByLength(_, _)
InsertByLength(term, sorted) ==
    IF sorted = <<>> THEN <<term>>
    ELSE IF Len(Head(sorted).translation) < Len(term.translation)
         THEN <<term>> \o sorted
         ELSE <<Head(sorted)>> \o InsertByLength(term, Tail(sorted))

\* the terms in the order of the mapping
sorted_terms_unsorted(term_translations) == term_translations

RECURSIVE sorted_terms(_)
sorted_terms(term_translations) ==
    IF term_translations = <<>> THEN <<>>
    ELSE InsertByLength(term_translations[Len(term_translations)],
                        sorted_terms(SubSeq(term_translations, 1,
                                           Len(term_translations) - 1)))

\* a loop without the length filter
TooShortIgnored(cfg, original_term) == FALSE

\* "Skip if term is too short"
TooShort(cfg, original_term) == Len(original_term) < cfg.min_term_length

\* a loop that never looks at max_annotations_per_term
ReachedMaxIgnored(cfg, count, original_term) == FALSE

\* "Skip if we've already annotated this term enough times"
ReachedMax(cfg, count, original_term) ==
    CountGet(count, original_term) >= cfg.max_annotations_per_term

\* The state of the loop over sorted_terms.  log is the history of the
\* splices made so far, oldest first: the term, the replaced span and the
\* annotation put in its place.
LoopStart(text, count) ==
    [ok |-> TRUE, error |-> "", text |-> text, added |-> 0, positions |-> {},
     count |-> count, log |-> <<>>]

\* one iteration of the loop
TermStep(cfg, st, term) ==
    IF TooShort(cfg, term.original) THEN st
    ELSE IF ReachedMax(cfg, st.count, term.original) THEN st
    ELSE
      LET r == _annotate_term_with_positions(cfg, st.text, term.original, term.translation,
                                             st.positions, st.count)
      IN
      IF ~r.ok THEN [st EXCEPT !.ok = FALSE, !.error = r.error]
      ELSE [ok |-> TRUE, error |-> "",
            text |-> r.text,
            added |-> st.added + r.added,
            positions |-> st.positions \cup r.positions,
            count |-> r.count,
            log |-> IF r.added = 1
                    THEN Append(st.log, [original |-> term.original,
                                         start |-> r.start, end |-> r.end,
                                         annotation |-> r.annotation])
                    ELSE st.log]

RECURSIVE TermLoop(_, _, _)
TermLoop(cfg, st, terms) ==
    IF terms = <<>> \/ ~st.ok THEN st
    ELSE TermLoop(cfg, TermStep(cfg, st, Head(terms)), Tail(terms))

_add_source_term_annotations(cfg, text, term_translations, count) ==
    TermLoop(cfg, LoopStart(text, count), sorted_terms(term_translations))

(***************************************************************************)
(* _adjust_spacing                                                         *)
(***************************************************************************)
\* re.sub("(left)(right)", r"\1 \2", text): a space goes between the two
\* characters of every successive non-overlapping match
RECURSIVE SubPair(_, _, _)
SubPair(text, left, right) ==
    IF Len(text) < 2 THEN text
    ELSE IF text[1] \in left /\ text[2] \in right
         THEN <<text[1], " ", text[2]>> \o SubPair(SubSeq(text, 3, Len(text)), left, right)
         ELSE <<text[1]>> \o SubPair(Tail(text), left, right)

\* a pass that leaves runs of spaces alone
CollapseSpacesSkipped(text) == text

\* re.sub(r" +", " ", text)
RECURSIVE CollapseSpaces(_)
CollapseSpaces(text) ==
    IF text = <<>> THEN <<>>
    ELSE IF Len(text) >= 2 /\ text[1] = " " /\ text[2] = " "
         THEN CollapseSpaces(Tail(text))
         ELSE <<text[1]>> \o CollapseSpaces(Tail(text))

\* a pass that puts a space after a Japanese character only
_adjust_spacing_one_direction(text) ==
    CollapseSpaces(SubPair(text, JapaneseChars, AsciiChars))

_adjust_spacing(text) ==
    CollapseSpaces(SubPair(SubPair(text, JapaneseChars, AsciiChars), AsciiChars, JapaneseChars))

(***************************************************************************)
(* _preserve_formatting                                                    *)
(***************************************************************************)
\* text.replace("\r\n", "\n")
RECURSIVE ReplaceCrLf(_)
ReplaceCrLf(text) ==
    IF text = <<>> THEN <<>>
    ELSE IF Len(text) >= 2 /\ text[1] = "\r" /\ text[2] = "\n"
         THEN <<"\n">> \o ReplaceCrLf(SubSeq(text, 3, Len(text)))
         ELSE <<text[1]>> \o ReplaceCrLf(Tail(text))

\* a pass that leaves a lone carriage return alone
ReplaceCrSkipped(text) == text

\* text.replace("\r", "\n")
ReplaceCr(text) == [k \in 1..Len(text) |-> IF text[k] = "\r" THEN "\n" ELSE text[k]]

\* the length of the longest prefix of text made of whitespace (\s*)
RECURSIVE WhitespaceRun(_)
WhitespaceRun(text) ==
    IF text = <<>> \/ text[1] \notin WhitespaceChars THEN 0
    ELSE 1 + WhitespaceRun(Tail(text))

\* re.sub(r"\n\s*\n", "\n\n", text): from a newline, the greedy \s* backs
\* off to the last newline of the whitespace run that follows
RECURSIVE SubParagraphBreaks(_)
SubParagraphBreaks(text) ==
    IF text = <<>> THEN <<>>
    ELSE IF text[1] # "\n" THEN <<text[1]>> \o SubParagraphBreaks(Tail(text))
    ELSE LET rest == Tail(text)
             run == WhitespaceRun(rest)
             newlines == {k \in 1..run : rest[k] = "\n"}
         IN IF newlines = {} THEN <<"\n">> \o SubParagraphBreaks(rest)
            ELSE LET last == CHOOSE k \in newlines : \A j \in newlines : j <= k
                 IN <<"\n", "\n">> \o SubParagraphBreaks(SubSeq(rest, last + 1, Len(rest)))

\* the paragraph breaks first, the line endings after
_preserve_formatting_breaks_first(text) == ReplaceCr(ReplaceCrLf(SubParagraphBreaks(text)))

_preserve_formatting(text) == SubParagraphBreaks(ReplaceCr(ReplaceCrLf(text)))

(***************************************************************************)
(* process                                                                 *)
(***************************************************************************)
PostProcessingResult(processed_text, success, error, annotations_added, terms_processed) ==
    [processed_text |-> processed_text, success |-> success, error |-> error,
     annotations_added |-> annotations_added, terms_processed |-> terms_processed]

\* an except clause that returns the working text
FailureResultWorkingText(translated_text, processed_text, error) ==
    PostProcessingResult(processed_text, FALSE, error, 0, 0)

\* the result of the except clause: "Return original on error"
FailureResult(translated_text, processed_text, error) ==
    PostProcessingResult(translated_text, FALSE, error, 0, 0)

\* both passes, whatever the flags say
NormalizeAlways(cfg, text) == _preserve_formatting(_adjust_spacing(text))

\* the text after the two optional normalizer passes
Normalize(cfg, text) ==
    LET spaced == IF cfg.spacing_adjustment THEN _adjust_spacing(text) ELSE text
    IN IF cfg.preserve_line_breaks THEN _preserve_formatting(spaced) ELSE spaced

\* a process() that keeps the table of the call before
ClearedCountKept(count) == count

\* self._annotation_count.clear()
ClearedCount(count) == EmptyBag

\* a process() that annotates whatever add_source_terms says
ShouldAnnotateAlways(cfg, term_translations) == term_translations # <<>>

\* "if self.processor_config.add_source_terms and term_translations"
ShouldAnnotate(cfg, term_translations) ==
    cfg.add_source_terms /\ term_translations # <<>>

\* One call of process() on a processor whose counter table is count.
\* Gives the returned result, the counter table after the call and, for the
\* properties, the splice history and the text as annotated before the
\* normalizer passes.
process(cfg, translated_text, term_translations, count) ==
    IF translated_text = None
    THEN [result |-> PostProcessingResult(<<>>, FALSE, "Translated text is None", 0, 0),
          count |-> count, log |-> <<>>, annotated |-> <<>>]
    ELSE
      LET cleared == ClearedCount(count)
          st == IF ShouldAnnotate(cfg, term_translations)
                THEN _add_source_term_annotations(cfg, translated_text, term_translations, cleared)
                ELSE LoopStart(translated_text, cleared)
      IN
      IF ~st.ok
      THEN [result |-> FailureResult(translated_text, st.text, st.error),
            count |-> st.count, log |-> st.log, annotated |-> st.text]
      ELSE [result |-> PostProcessingResult(Normalize(cfg, st.text), TRUE, "", st.added,
                                            Len(term_translations)),
            count |-> st.count, log |-> st.log, annotated |-> st.text]

(***************************************************************************)
(* The inputs of the model.                                                *)
(***************************************************************************)
\* the characters of the translated texts
TextChars == {"J", "K", "a"}

Texts == SeqsUpTo(TextChars, MaxTextLen)

\* The terms the mappings are made of: a long translation, a translation
\* that is a substring of it, an ASCII translation (upper case, where the
\* texts and the originals have it in lower case), a term with a
\* one-character original, a translation mixing Japanese and ASCII
\* characters.
TermPool ==
    {[original |-> <<"a", "b">>, translation |-> <<"J", "K">>],
     [original |-> <<"b", "a">>, translation |-> <<"J">>],
     [original |-> <<"a", "a">>, translation |-> <<"A">>],
     [original |-> <<"b">>, translation |-> <<"J", "K">>],
     [original |-> <<"b", "b">>, translation |-> <<"a", "J">>]}

\* a dict in insertion order: the originals are distinct
Mappings == {m \in SeqsUpTo(TermPool, MaxTerms) : \A i, j \in 1..Len(m) : i # j => m[i].original # m[j].original}

BracketFormat == <<"{", "translation", "}", " ", "[", "{", "original", "}", "]">>

AdjacentFormat == <<"{", "translation", "}", "{", "original", "}">>

TranslationOnlyFormat == <<"{", "translation", "}">>

OriginalOnlyFormat == <<"(", "{", "original", "}", ")">>

UnbalancedFormat == <<"{", "translation", "}", "(", "{", "original">>

UnknownFieldFormat == <<"{", "translation", "}", "(", "{", "term", "}", ")">>

IndexedFormat == <<"{", "translation", "}", "(", "{", "original[1]", "}", ")">>

Formats == {DefaultFormat, BracketFormat, AdjacentFormat, TranslationOnlyFormat, OriginalOnlyFormat, UnbalancedFormat, UnknownFieldFormat, IndexedFormat}

\* the configurations: the defaults with one field set otherwise, with the
\* normalizer passes on or off, and with an indexed field in the template
\* while one-character originals pass the length filter
Configs ==
    {[DefaultConfig EXCEPT !.source_term_format = f] : f \in Formats}
    \cup {[DefaultConfig EXCEPT !.min_term_length = n] : n \in {1, 3}}
    \cup {[DefaultConfig EXCEPT !.max_annotations_per_term = n] : n \in {0, 2}}
    \cup {[DefaultConfig EXCEPT !.case_sensitive = TRUE]}
    \cup {[DefaultConfig EXCEPT !.add_source_terms = FALSE]}
    \cup {[DefaultConfig EXCEPT !.spacing_adjustment = b, !.preserve_line_breaks = c] : b, c \in BOOLEAN}
    \cup {[DefaultConfig EXCEPT !.source_term_format = IndexedFormat, !.min_term_length = 1]}

(***************************************************************************)
(* The state: one PostProcessor and the call it is serving.                *)
(***************************************************************************)
\* processor_config, _annotation_count: the fields of the PostProcessor;
\* pc: "idle" before a call, "call" when process() has been called with
\* translated_text and term_translations, "done" when it has returned result;
\* log, annotated: the splices of that call and the text they gave, before
\* the normalizer passes; calls: the number of process() calls made;
\* inserted: for each original term, the number of process() calls since
\* construction or the last reset_annotations() that spliced in an
\* annotation for it.
VARIABLES processor_config, _annotation_count, pc, translated_text, term_translations, result, log, annotated, calls, inserted, texts_and_terms, results, workers, tables, page_info, block, region_type, column_count, layout_pc, layout_config, document_pages, layout_results, layout_analyzer, source_page, translated_page, pipeline_pc

\* the argument list and the returned list of a BatchPostProcessor call
batch_vars == <<texts_and_terms, results>>

\* the PostProcessor instances of concurrent callers and their counter tables
worker_vars == <<workers, tables>>

\* the arguments and the results of the LayoutAnalyzer calls
layout_vars == <<page_info, block, region_type, column_count, layout_pc>>

\* the analyzer's configuration, the pages of a document and their analysis results
document_vars == <<layout_config, document_pages, layout_results>>

\* the pipeline's analyzer, the page handed to _process_page as it is at the call, the page
\* returned, and whether the call is still to come, has returned or has raised
pipeline_vars == <<layout_analyzer, source_page, translated_page, pipeline_pc>>

\* what no call on the one PostProcessor or BatchPostProcessor touches
detached_vars == <<worker_vars, layout_vars, document_vars, pipeline_vars>>

\* the one PostProcessor, its call and the ghost history of the call
processor_vars == <<processor_config, _annotation_count, pc, translated_text, term_translations, result, log, annotated, calls, inserted>>

vars == <<processor_vars, batch_vars, detached_vars>>

\* there are no concurrent callers
NoWorkers == workers = <<>> /\ tables = <<>>

\* a page without blocks and a block without text
NoPage == [height |-> 0, text_blocks |-> <<>>]

NoBlock == [text |-> [chars |-> <<>>, tail |-> 0], bbox |-> <<0, 0, 0, 0>>, font_size |-> 0]

\* LayoutAnalyzer() before any call
NoLayout ==
    /\ page_info = NoPage
    /\ block = NoBlock
    /\ region_type = "none"
    /\ column_count = 0
    /\ layout_pc = "idle"

\* LayoutAnalyzer() with the default LayoutAnalyzerConfig, no document analysed
NoDocument ==
    /\ layout_config = [column_detection_enabled |-> TRUE]
    /\ document_pages = <<>>
    /\ layout_results = <<>>

\* no page has been handed to a TranslationPipeline
EmptyPage == [number |-> 0, width |-> 0, height |-> 0, text_blocks |-> <<>>, regions |-> <<>>]

NoPipeline ==
    /\ layout_analyzer = "None"
    /\ source_page = EmptyPage
    /\ translated_page = EmptyPage
    /\ pipeline_pc = "idle"

\* nothing outside the one PostProcessor or BatchPostProcessor is in use
Detached == NoWorkers /\ NoLayout /\ NoDocument /\ NoPipeline

\* no BatchPostProcessor call has been made
NoBatch == texts_and_terms = <<>> /\ results = <<>>

NoResult == PostProcessingResult(<<>>, FALSE, "", 0, 0)

\* PostProcessor(config), about to serve process(translated_text, term_translations)
Init ==
    /\ processor_config \in Configs
    /\ _annotation_count = EmptyBag
    /\ pc = "call"
    /\ translated_text \in Texts \cup {None}
    /\ term_translations \in Mappings
    /\ result = NoResult
    /\ log = <<>>
    /\ annotated = <<>>
    /\ calls = 0
    /\ inserted = EmptyBag
    /\ NoBatch
    /\ Detached

\* PostProcessor.process runs to its return
ProcessCall ==
    /\ pc = "call"
    /\ \E r \in {process(processor_config, translated_text, term_translations, _annotation_count)} :
          /\ result' = r.result
          /\ _annotation_count' = r.count
          /\ log' = r.log
          /\ annotated' = r.annotated
          /\ inserted' = inserted (+) SetToBag({r.log[k].original : k \in 1..Len(r.log)})
    /\ pc' = "done"
    /\ calls' = calls + 1
    /\ UNCHANGED <<processor_config, translated_text, term_translations, batch_vars, detached_vars>>

Next == ProcessCall

Spec == Init /\ [][Next]_vars

(***************************************************************************)
(* process() without terms: texts with spaces and line endings, an empty   *)
(* mapping.                                                                *)
(***************************************************************************)
PlainChars == {"J", "a", " ", "\n", "\r"}

PlainTexts == SeqsUpTo(PlainChars, MaxPlainLen)

PlainInit ==
    /\ processor_config \in Configs
    /\ _annotation_count = EmptyBag
    /\ pc = "call"
    /\ translated_text \in PlainTexts
    /\ term_translations = <<>>
    /\ result = NoResult
    /\ log = <<>>
    /\ annotated = <<>>
    /\ calls = 0
    /\ inserted = EmptyBag
    /\ NoBatch
    /\ Detached

PlainSpec == PlainInit /\ [][Next]_vars

(***************************************************************************)
(* A session: one PostProcessor serving several process() calls, with      *)
(* reset_annotations() between them or not.                                *)
(***************************************************************************)
SessionTexts == SeqsUpTo(TextChars, MaxSessionLen)

SessionMappings == {m \in Mappings : Len(m) <= MaxSessionTerms}

SessionConfigs == {[DefaultConfig EXCEPT !.max_annotations_per_term = n] : n \in {0, 1, 2}}

SessionInit ==
    /\ processor_config \in SessionConfigs
    /\ _annotation_count = EmptyBag
    /\ pc = "idle"
    /\ translated_text = <<>>
    /\ term_translations = <<>>
    /\ result = NoResult
    /\ log = <<>>
    /\ annotated = <<>>
    /\ calls = 0
    /\ inserted = EmptyBag
    /\ NoBatch
    /\ Detached

\* the caller calls process(text, mapping)
Invoke(text, mapping) ==
    /\ pc \in {"idle", "done"}
    /\ calls < MaxCalls
    /\ pc' = "call"
    /\ translated_text' = text
    /\ term_translations' = mapping
    /\ result' = NoResult
    /\ log' = <<>>
    /\ annotated' = <<>>
    /\ UNCHANGED <<processor_config, _annotation_count, calls, inserted, batch_vars, detached_vars>>

\* PostProcessor.reset_annotations
reset_annotations ==
    /\ pc = "done"
    /\ _annotation_count' = EmptyBag
    /\ inserted' = EmptyBag
    /\ pc' = "idle"
    /\ UNCHANGED <<processor_config, translated_text, term_translations, result, log, annotated, calls, batch_vars, detached_vars>>

SessionNext ==
    \/ \E text \in SessionTexts \cup {None}, mapping \in SessionMappings : Invoke(text, mapping)
    \/ ProcessCall
    \/ reset_annotations

SessionSpec == SessionInit /\ [][SessionNext]_vars

(***************************************************************************)
(* Helpers of the properties.                                              *)
(***************************************************************************)
\* The span, just before splice k of history h is made, of the annotation
\* put in by splice j < k: later splices to its left have moved it.
RECURSIVE SpanBefore(_, _, _)
SpanBefore(h, j, k) ==
    IF k = j + 1 THEN <<h[j].start, h[j].start + Len(h[j].annotation)>>
    ELSE LET s == SpanBefore(h, j, k - 1)
             e == h[k - 1]
             delta == Len(e.annotation) - (e.end - e.start)
         IN IF e.start >= s[2] THEN s
            ELSE IF e.end <= s[1] THEN <<s[1] + delta, s[2] + delta>>
            ELSE <<Min(s[1], e.start), s[2] + delta>>

\* the 0-based offsets at which pat occurs in text, compared exactly
Occurrences(text, pat) == {i \in 0..(Len(text) - Len(pat)) : SubSeq(text, i + 1, i + Len(pat)) = pat}

\* the splices of history h made for the term with this original
SplicesOf(h, original) == {k \in 1..Len(h) : h[k].original = original}

(***************************************************************************)
(* C1.  No-overlap invariant: when process() has returned, no annotation   *)
(* of the call was spliced in inside or across the text of an annotation   *)
(* spliced in earlier in the same call, wherever the earlier one has       *)
(* moved to since.  Stated for the default configuration.                  *)
(***************************************************************************)
C1_NoOverlap ==
    pc = "done" /\ processor_config = DefaultConfig =>
        \A k \in 1..Len(log) : \A j \in 1..(k - 1) :
            LET s == SpanBefore(log, j, k)
            IN log[k].end <= s[1] \/ log[k].start >= s[2]

(***************************************************************************)
(* C3.  Within one process() call the counter of every term is 0 or 1 and  *)
(* never above max_annotations_per_term, and it is the number of           *)
(* annotations spliced in for the term: at most one for any                *)
(* max_annotations_per_term >= 1 and none for 0.                           *)
(***************************************************************************)
C3_CounterBounded ==
    \A t \in TermPool :
        LET n == CountGet(_annotation_count, t.original)
        IN /\ n \in {0, 1}
           /\ n <= processor_config.max_annotations_per_term
           /\ Cardinality(SplicesOf(log, t.original)) = n

C3_Witness ==
    /\ pc = "done"
    /\ processor_config.max_annotations_per_term = 2
    /\ Len(log) = 3
    /\ \A t \in TermPool : CountGet(_annotation_count, t.original) <= 1

(***************************************************************************)
(* C7.  A failed result carries a non-empty error and the input text       *)
(* verbatim (the empty text when the input was None), also when the        *)
(* working text had already been annotated; process(None, m) fails.        *)
(***************************************************************************)
C7_FailureKeepsInput ==
    pc = "done" =>
        /\ translated_text = None => ~result.success
        /\ ~result.success =>
              /\ result.error # ""
              /\ result.processed_text = IF translated_text = None THEN <<>> ELSE translated_text

C7_Witness ==
    /\ pc = "done"
    /\ ~result.success
    /\ translated_text # None
    /\ annotated # translated_text

(***************************************************************************)
(* C9.  As claimed: with an empty term mapping and the default             *)
(* configuration process() succeeds and returns the input unchanged.       *)
(***************************************************************************)
C9_EmptyMappingUnchanged ==
    pc = "done" /\ processor_config = DefaultConfig /\ term_translations = <<>> =>
        result.success /\ result.processed_text = translated_text

\* no Japanese character next to an ASCII letter or digit
NoScriptBoundary(text) ==
    \A i \in 1..(Len(text) - 1) :
        /\ ~(text[i] \in JapaneseChars /\ text[i + 1] \in AsciiChars)
        /\ ~(text[i] \in AsciiChars /\ text[i + 1] \in JapaneseChars)

\* no two spaces in a row
NoSpaceRun(text) == \A i \in 1..(Len(text) - 1) : ~(text[i] = " " /\ text[i + 1] = " ")

\* no carriage return, and two newlines have nothing or something other
\* than whitespace between them
NoLineBreakToNormalize(text) ==
    /\ \A i \in 1..Len(text) : text[i] # "\r"
    /\ \A i, j \in 1..Len(text) :
          (i < j /\ text[i] = "\n" /\ text[j] = "\n" /\ \A k \in (i + 1)..(j - 1) : text[k] \in WhitespaceChars)
              => j = i + 1 /\ (j = Len(text) \/ text[j + 1] # "\n")

(***************************************************************************)
(* C9 as amended.  With an empty term mapping and the default              *)
(* configuration process() succeeds with annotations_added = 0 and         *)
(* terms_processed = 0, and it returns the input unchanged exactly when    *)
(* the input has nothing for the spacing and formatting passes to          *)
(* normalize: no Japanese/ASCII adjacency, no run of spaces, no carriage   *)
(* return and no newlines separated by whitespace only, other than one     *)
(* pair of adjacent newlines.                                              *)
(***************************************************************************)
C9_EmptyMappingNormalizes ==
    pc = "done" /\ processor_config = DefaultConfig /\ term_translations = <<>> =>
        /\ result.success
        /\ result.annotations_added = 0
        /\ result.terms_processed = 0
        /\ _annotation_count = EmptyBag
        /\ result.processed_text = translated_text
              <=> (NoScriptBoundary(translated_text) /\ NoSpaceRun(translated_text)
                   /\ NoLineBreakToNormalize(translated_text))

C9_Witness ==
    /\ pc = "done"
    /\ processor_config = DefaultConfig
    /\ term_translations = <<>>
    /\ result.success
    /\ Len(translated_text) = MaxPlainLen
    /\ result.processed_text = translated_text
    /\ \E i \in 1..Len(translated_text) : translated_text[i] = "\n"
    /\ \E i \in 1..Len(translated_text) : translated_text[i] = " "

(***************************************************************************)
(* C8.  As claimed: a template with an unbalanced brace, with an unknown   *)
(* placeholder or without one of the two placeholders, used with a         *)
(* non-empty mapping, makes process() fail and return the input unchanged. *)
(***************************************************************************)
RaisingFormats == {UnbalancedFormat, UnknownFieldFormat}

IncompleteFormats == {TranslationOnlyFormat, OriginalOnlyFormat}

C8_MalformedFormatFails ==
    (/\ pc = "done"
     /\ translated_text # None
     /\ term_translations # <<>>
     /\ processor_config.source_term_format \in RaisingFormats \cup IncompleteFormats)
        => ~result.success /\ result.processed_text = translated_text

\* term i of the mapping gets as far as the formatting of its annotation
ReachesFormat(i) ==
    /\ processor_config.add_source_terms
    /\ processor_config.max_annotations_per_term >= 1
    /\ Len(term_translations[i].original) >= processor_config.min_term_length
    /\ \E k \in 1..Len(term_translations[i].translation) :
          term_translations[i].translation[k] \notin WhitespaceChars

(***************************************************************************)
(* C8 as amended.  A template with an unbalanced brace or an unknown       *)
(* placeholder makes process() fail, with a non-empty error and the input  *)
(* text unchanged, exactly when some term of the mapping gets as far as    *)
(* formatting (annotation is on, its original has min_term_length          *)
(* characters or more and its translation is not blank), whether or not    *)
(* the translation occurs in the text; when no term does, process()        *)
(* succeeds.  A template that only lacks the translation or the original   *)
(* placeholder is no error: process() succeeds with it.                    *)
(***************************************************************************)
C8_RaisingFormatFails ==
    pc = "done" /\ translated_text # None =>
        /\ processor_config.source_term_format \in RaisingFormats =>
              IF \E i \in 1..Len(term_translations) : ReachesFormat(i)
              THEN ~result.success /\ result.error # "" /\ result.processed_text = translated_text
              ELSE result.success
        /\ processor_config.source_term_format \in IncompleteFormats => result.success

C8_Witness ==
    /\ pc = "done"
    /\ processor_config.source_term_format = UnknownFieldFormat
    /\ ~result.success
    /\ translated_text # None
    /\ Len(term_translations) = 1
    /\ Occurrences(translated_text, term_translations[1].translation) = {}

(***************************************************************************)
(* C10.  A term whose original is shorter than min_term_length is never    *)
(* annotated, and it does not change what process() does with the other    *)
(* terms: the result is the one of the mapping without the short terms,    *)
(* but for terms_processed.                                                *)
(***************************************************************************)
LongEnough(t) == Len(t.original) >= processor_config.min_term_length

C10_ShortTermsFiltered ==
    pc = "done" /\ translated_text # None =>
        /\ \A i \in 1..Len(term_translations) :
              ~LongEnough(term_translations[i]) =>
                  /\ SplicesOf(log, term_translations[i].original) = {}
                  /\ CountGet(_annotation_count, term_translations[i].original) = 0
        /\ (\E i \in 1..Len(term_translations) : ~LongEnough(term_translations[i])) =>
           \E r \in {process(processor_config, translated_text, SelectSeq(term_translations, LongEnough), EmptyBag)} :
              /\ result.success = r.result.success
              /\ result.processed_text = r.result.processed_text
              /\ result.annotations_added = r.result.annotations_added
              /\ log = r.log

\* the default configuration, a one-character original whose translation
\* stands in the returned text outside every annotation, another term annotated
C10_Witness ==
    /\ pc = "done"
    /\ processor_config = DefaultConfig
    /\ result.success
    /\ Len(log) >= 1
    /\ \E i \in 1..Len(term_translations) :
          /\ ~LongEnough(term_translations[i])
          /\ \E p \in Occurrences(annotated, term_translations[i].translation) :
                \A k \in 1..Len(log) :
                    LET s == SpanBefore(log, k, Len(log) + 1)
                    IN p + Len(term_translations[i].translation) <= s[1] \/ p >= s[2]

(***************************************************************************)
(* Helpers of C4, C5 and C6.                                               *)
(***************************************************************************)
\* the annotation of term t under the configured template
AnnotationOf(t) == Format(processor_config.source_term_format, t.translation, t.original).value

\* the offsets at which the translation of t matches the text, under the
\* configured case sensitivity
MatchOffsets(text, t) ==
    {i \in 0..(Len(text) - Len(t.translation)) : MatchesAt(text, t.translation, i, processor_config.case_sensitive)}

Leftmost(offsets) == CHOOSE i \in offsets : \A j \in offsets : i <= j

\* term t of the mapping is annotated if its translation is found
PassesFilters(t) ==
    /\ processor_config.add_source_terms
    /\ processor_config.max_annotations_per_term >= 1
    /\ LongEnough(t)

AnnotatedInside(S, L) ==
    {SubSeq(L.translation, 1, i) \o AnnotationOf(S)
        \o SubSeq(L.translation, i + Len(S.translation) + 1, Len(L.translation)) :
     i \in Occurrences(L.translation, S.translation)}

C6_OutputGuarantee ==
    pc = "done" /\ result.success /\ processor_config = DefaultConfig =>
        \A k \in 1..Len(log) :
            NoScriptBoundary(log[k].annotation)
                => Cardinality(Occurrences(result.processed_text, log[k].annotation)) = 1

(***************************************************************************)
(* C2.  At-most-one-annotation invariant: in a session, the process()      *)
(* calls made on one PostProcessor since its construction or its last      *)
(* reset_annotations(), the number of calls that spliced in an annotation  *)
(* for a term is at most max_annotations_per_term.                         *)
(***************************************************************************)
C2_AtMostMaxPerSession ==
    \A t \in TermPool : CopiesIn(t.original, inserted) <= processor_config.max_annotations_per_term

(***************************************************************************)
(* C11.  With add_source_terms off no term is annotated: whatever the text *)
(* and the mapping, the call counts no annotation, splices nothing, leaves *)
(* the counter table empty and returns the text that the same call with an *)
(* empty mapping returns.                                                  *)
(***************************************************************************)
C11_NoTermsWhenDisabled ==
    pc = "done" /\ ~processor_config.add_source_terms =>
        \E e \in {process(processor_config, translated_text, <<>>, EmptyBag)} :
            /\ result.annotations_added = 0
            /\ log = <<>>
            /\ _annotation_count = EmptyBag
            /\ result.processed_text = e.result.processed_text
            /\ result.success = e.result.success

\* add_source_terms off, and a term of the mapping that passes the length
\* filter has its translation in the text
C11_Witness ==
    /\ pc = "done"
    /\ ~processor_config.add_source_terms
    /\ translated_text # None
    /\ \E i \in 1..Len(term_translations) :
          /\ LongEnough(term_translations[i])
          /\ Occurrences(translated_text, term_translations[i].translation) # {}

\* what get_annotation_stats() returns: a copy of the counter table
get_annotation_stats(count) == count

(***************************************************************************)
(* C12.  After every successful process() call the statistics agree:       *)
(* terms_processed is the number of entries of the mapping,                *)
(* annotations_added is the number of splices made, it is at most          *)
(* terms_processed, and get_annotation_stats() maps exactly the terms that *)
(* were spliced in to 1, so that its values sum to annotations_added.      *)
(***************************************************************************)
C12_StatisticsConsistent ==
    pc = "done" /\ result.success =>
        \E stats \in {get_annotation_stats(_annotation_count)} :
            /\ result.terms_processed = Len(term_translations)
            /\ result.annotations_added = Len(log)
            /\ result.annotations_added <= result.terms_processed
            /\ BagToSet(stats) = {log[k].original : k \in 1..Len(log)}
            /\ \A o \in BagToSet(stats) : CopiesIn(o, stats) = 1
            /\ BagCardinality(stats) = result.annotations_added

\* a successful call with three terms: one filtered out as too short, one
\* without a match and one annotated
C12_Witness ==
    /\ pc = "done"
    /\ result.success
    /\ result.terms_processed = 3
    /\ result.annotations_added = 1
    /\ \E i \in 1..Len(term_translations) : ~LongEnough(term_translations[i])
    /\ BagCardinality(get_annotation_stats(_annotation_count)) = 1

(***************************************************************************)
(* BatchPostProcessor: self.processor is the PostProcessor of the          *)
(* variables above, which a caller may also use directly; process_batch    *)
(* runs on it, process_pages on a PostProcessor of its own.                *)
(***************************************************************************)
MaxPages == 2

BatchTexts == {<<"J">>, <<"J", "K">>, <<"K", "J", "K">>}

BatchMappings == {<<[original |-> <<"b", "a">>, translation |-> <<"J">>]>>,
                  <<[original |-> <<"b", "a">>, translation |-> <<"J">>],
                    [original |-> <<"a", "b">>, translation |-> <<"J", "K">>]>>}

BatchPairs == [text : BatchTexts, terms : BatchMappings]

\* self.processor.reset_annotations() before each text
ResetCount(count) == EmptyBag

\* one entry of the returned list, with the splices of its process() call
BatchEntry(r) == [result |-> r.result, log |-> r.log]

\* the loop of process_batch over the pairs left, on the shared processor;
\* BatchThen is the rest of an iteration once process() has returned r
RECURSIVE BatchLoop(_, _, _, _)
BatchThen(cfg, r, rest, out) == BatchLoop(cfg, r.count, rest, Append(out, BatchEntry(r)))

BatchLoop(cfg, count, pairs, out) ==
    IF pairs = <<>> THEN [results |-> out, count |-> count]
    ELSE BatchThen(cfg, process(cfg, Head(pairs).text, Head(pairs).terms, ResetCount(count)),
                   Tail(pairs), out)

\* the loop of process_pages over the pages left, on global_processor;
\* PagesThen is the rest of an iteration once process() has returned r
RECURSIVE PagesLoop(_, _, _, _, _)
PagesThen(cfg, r, rest, global_terms, out) ==
    PagesLoop(cfg, r.count, rest, global_terms, Append(out, BatchEntry(r)))

PagesLoop(cfg, count, pages, global_terms, out) ==
    IF pages = <<>> THEN [results |-> out, count |-> count]
    ELSE PagesThen(cfg, process(cfg, Head(pages), global_terms, count), Tail(pages),
                   global_terms, out)

\* BatchPostProcessor.process_batch(pairs), for some list of pairs
process_batch ==
    /\ pc \in {"idle", "done"}
    /\ \E pairs \in SeqsUpTo(BatchPairs, MaxPages) :
       \E b \in {BatchLoop(processor_config, _annotation_count, pairs, <<>>)} :
          /\ results' = b.results
          /\ _annotation_count' = b.count
          /\ inserted' = IF pairs = <<>> THEN inserted
                         ELSE LET last == b.results[Len(pairs)].log
                              IN SetToBag({last[k].original : k \in 1..Len(last)})
          /\ texts_and_terms' = pairs
          /\ calls' = calls + Len(pairs)
    /\ pc' = "batch_done"
    /\ UNCHANGED <<processor_config, translated_text, term_translations, result, log, annotated, detached_vars>>

\* BatchPostProcessor.process_pages(pages, global_terms), for some pages and terms
process_pages ==
    /\ pc \in {"idle", "done"}
    /\ \E pages \in SeqsUpTo(BatchTexts, MaxPages), global_terms \in BatchMappings :
          /\ results' = PagesLoop(processor_config, EmptyBag, pages, global_terms, <<>>).results
          /\ texts_and_terms' = [i \in 1..Len(pages) |-> [text |-> pages[i], terms |-> global_terms]]
    /\ pc' = "pages_done"
    /\ UNCHANGED <<processor_config, _annotation_count, translated_text, term_translations, result, log, annotated, calls, inserted, detached_vars>>

BatchNext ==
    \/ \E p \in BatchPairs : Invoke(p.text, p.terms)
    \/ ProcessCall
    \/ reset_annotations
    \/ process_batch
    \/ process_pages

BatchSpec == SessionInit /\ [][BatchNext]_vars

C14_GlobalFirstOccurrence ==
    pc = "pages_done" =>
        \A i \in 1..Len(results) : \A j \in (i + 1)..Len(results) :
            \A k \in 1..Len(results[i].log) : \A l \in 1..Len(results[j].log) :
                results[i].log[k].original # results[j].log[l].original

(***************************************************************************)
(* A repeated run: process() is called again on the text it returned,      *)
(* with the same mapping and configuration.                                *)
(***************************************************************************)
Rerun ==
    /\ pc = "done"
    /\ calls = 1
    /\ result.success
    /\ translated_text' = result.processed_text
    /\ pc' = "call"
    /\ result' = NoResult
    /\ log' = <<>>
    /\ annotated' = <<>>
    /\ UNCHANGED <<processor_config, _annotation_count, term_translations, calls, inserted, batch_vars, detached_vars>>

RerunNext == ProcessCall \/ Rerun

RerunSpec == Init /\ [][RerunNext]_vars

(***************************************************************************)
(* C15.  Annotation is idempotent across repeated runs: process() run      *)
(* again on its own processed_text, with the same mapping and              *)
(* configuration, returns that text unchanged and adds no annotation.      *)
(* Stated for the default configuration.                                   *)
(***************************************************************************)
C15_Idempotent ==
    pc = "done" /\ calls = 2 /\ processor_config = DefaultConfig =>
        /\ result.success
        /\ result.processed_text = translated_text
        /\ result.annotations_added = 0
        /\ log = <<>>

(***************************************************************************)
(* Concurrent callers: every caller has a PostProcessor instance of its    *)
(* own and runs one process() call on it; the steps of the calls           *)
(* interleave at the entry of process(), at each iteration of the loop     *)
(* over the terms and at the normalizer passes.                            *)
(***************************************************************************)
Instances == {1, 2}

\* a counter table that all instances share
TableOfShared(i) == 1

\* self._annotation_count of instance i, a dict made by its own __init__
TableOf(i) == i

WorkerInputs == BatchPairs \cup {[text |-> None, terms |-> m] : m \in BatchMappings}

\* PostProcessor(PostProcessorConfig()) about to run process(text, terms);
\* overlapped records that a step was taken while another call was under way
WorkerStart(input) ==
    [cfg |-> DefaultConfig, text |-> input.text, terms |-> input.terms, pc |-> "start",
     st |-> LoopStart(<<>>, EmptyBag), todo |-> <<>>, result |-> NoResult,
     overlapped |-> FALSE]

\* some other call is between its entry and its return
OthersRunning(i) == \E j \in Instances \ {i} : workers[j].pc \in {"loop", "finish"}

ProcessorUnused ==
    /\ processor_config = DefaultConfig
    /\ _annotation_count = EmptyBag
    /\ pc = "idle"
    /\ translated_text = <<>>
    /\ term_translations = <<>>
    /\ result = NoResult
    /\ log = <<>>
    /\ annotated = <<>>
    /\ calls = 0
    /\ inserted = EmptyBag
    /\ NoBatch

WorkersInit ==
    /\ ProcessorUnused
    /\ workers \in [Instances -> {WorkerStart(input) : input \in WorkerInputs}]
    /\ tables = [i \in Instances |-> EmptyBag]
    /\ NoLayout
    /\ NoDocument
    /\ NoPipeline

\* process() up to the loop over the terms: the None test, clear(), sorted()
Enter(i) ==
    /\ workers[i].pc = "start"
    /\ \E w \in {workers[i]} :
          IF w.text = None
          THEN /\ workers' = [workers EXCEPT ![i].pc = "done",
                                 ![i].result = PostProcessingResult(<<>>, FALSE, "Translated text is None", 0, 0),
                                 ![i].overlapped = @ \/ OthersRunning(i)]
               /\ UNCHANGED tables
          ELSE /\ tables' = [tables EXCEPT ![TableOf(i)] = ClearedCount(@)]
               /\ workers' = [workers EXCEPT
                                 ![i].pc = IF ShouldAnnotate(w.cfg, w.terms) THEN "loop" ELSE "finish",
                                 ![i].todo = IF ShouldAnnotate(w.cfg, w.terms) THEN sorted_terms(w.terms) ELSE <<>>,
                                 ![i].st = LoopStart(w.text, EmptyBag),
                                 ![i].overlapped = @ \/ OthersRunning(i)]
    /\ UNCHANGED <<processor_vars, batch_vars, layout_vars, document_vars, pipeline_vars>>

\* one iteration of the loop of _add_source_term_annotations
Iterate(i) ==
    /\ workers[i].pc = "loop"
    /\ \E w \in {workers[i]} :
       \E s \in {TermStep(w.cfg, [w.st EXCEPT !.count = tables[TableOf(i)]], Head(w.todo))} :
          /\ tables' = [tables EXCEPT ![TableOf(i)] = s.count]
          /\ workers' = [workers EXCEPT
                            ![i].st = s,
                            ![i].todo = Tail(w.todo),
                            ![i].pc = IF ~s.ok THEN "done"
                                      ELSE IF Tail(w.todo) = <<>> THEN "finish" ELSE "loop",
                            ![i].result = IF ~s.ok THEN FailureResult(w.text, s.text, s.error)
                                          ELSE w.result,
                            ![i].overlapped = @ \/ OthersRunning(i)]
    /\ UNCHANGED <<processor_vars, batch_vars, layout_vars, document_vars, pipeline_vars>>

\* the normalizer passes and the return of process()
Finish(i) ==
    /\ workers[i].pc = "finish"
    /\ \E w \in {workers[i]} :
          workers' = [workers EXCEPT
                         ![i].pc = "done",
                         ![i].result = PostProcessingResult(Normalize(w.cfg, w.st.text), TRUE, "",
                                                            w.st.added, Len(w.terms)),
                         ![i].overlapped = @ \/ OthersRunning(i)]
    /\ UNCHANGED <<processor_vars, batch_vars, tables, layout_vars, document_vars, pipeline_vars>>

WorkersNext == \E i \in Instances : Enter(i) \/ Iterate(i) \/ Finish(i)

WorkersSpec == WorkersInit /\ [][WorkersNext]_vars

(***************************************************************************)
(* C16.  Concurrent process() calls, each on a PostProcessor instance of   *)
(* its own, are safe: in every interleaving each call returns exactly the  *)
(* result it returns when it runs alone.                                   *)
(***************************************************************************)
C16_ConcurrentCallsIndependent ==
    \A i \in Instances :
        workers[i].pc = "done" =>
            workers[i].result = process(workers[i].cfg, workers[i].text, workers[i].terms, EmptyBag).result

\* both calls have returned, their steps overlapped, and both annotated
\* the same term
C16_Witness ==
    /\ \A i \in Instances :
          /\ workers[i].pc = "done"
          /\ workers[i].overlapped
          /\ workers[i].result.annotations_added >= 1
    /\ \E k \in 1..Len(workers[1].st.log) : \E l \in 1..Len(workers[2].st.log) :
          workers[1].st.log[k].original = workers[2].st.log[l].original

(***************************************************************************)
(* LayoutAnalyzer (layout_analyzer/layout_analyzer.py), rule-based part.   *)
(*                                                                         *)
(* The text of a block is its first characters, chars, followed by tail    *)
(* further letters; "U+2022", "U+25CF" and "U+25CB" stand for the three    *)
(* bullet characters that are not ASCII.  Coordinates and font sizes are   *)
(* whole points, for which the comparisons of the code with 1.25, 0.05,    *)
(* 0.95 and 0.8 are the integer comparisons below.                         *)
(***************************************************************************)
MaxPageBlocks == 3

MaxColumnBlocks == 6

TitleMaxLength == 100

SinglePageTitleFontSize == 14

MinColumnGap == 150

BulletGlyphs == {"U+2022", "U+25CF", "U+25CB", "-", "*"}

Digits == {"0", "1", "2"}

RECURSIVE LStrip(_)
LStrip(s) == IF s # <<>> /\ Head(s) \in WhitespaceChars THEN LStrip(Tail(s)) ELSE s

RECURSIVE RStrip(_)
RStrip(s) ==
    IF s # <<>> /\ s[Len(s)] \in WhitespaceChars THEN RStrip(SubSeq(s, 1, Len(s) - 1)) ELSE s

\* block.text.strip()
strip(text) ==
    [chars |-> IF text.tail = 0 THEN RStrip(LStrip(text.chars)) ELSE LStrip(text.chars),
     tail |-> text.tail]

\* len(text)
len(text) == Len(text.chars) + text.tail

\* text[i], for i < len(text)
CharAt(text, i) == IF i < Len(text.chars) THEN text.chars[i + 1] ELSE "x"

\* text.startswith(('•', '●', '○', '-', '*'))
StartsWithBullet(text) == len(text) >= 1 /\ CharAt(text, 0) \in BulletGlyphs

\* the numbered prefix as the claim words it: one or more digits, then a dot or a closing parenthesis
StartsWithNumberAnyDigits(text) ==
    \E k \in 1..(len(text) - 1) :
        /\ \A i \in 0..(k - 1) : CharAt(text, i) \in Digits
        /\ CharAt(text, k) \in {".", ")"}

\* len(text) > 2 and text[0].isdigit() and text[1] in '.)'
StartsWithNumber(text) ==
    len(text) > 2 /\ CharAt(text, 0) \in Digits /\ CharAt(text, 1) \in {".", ")"}

RECURSIVE SumSeq(_)
SumSeq(s) == IF s = <<>> THEN 0 ELSE Head(s) + SumSeq(Tail(s))

\* sum(b.font_size for b in page_info.text_blocks)
FontSizeSum(page) == SumSeq([i \in 1..Len(page.text_blocks) |-> page.text_blocks[i].font_size])

\* a comparison with the mean that leaves out the equal case
IsTitleByAverageStrict(blk, text, page) ==
    /\ 4 * Len(page.text_blocks) * blk.font_size > 5 * FontSizeSum(page)
    /\ len(text) < TitleMaxLength

\* block.font_size >= avg_font_size * 1.25 and len(text) < 100
IsTitleByAverage(blk, text, page) ==
    /\ 4 * Len(page.text_blocks) * blk.font_size >= 5 * FontSizeSum(page)
    /\ len(text) < TitleMaxLength

\* block.font_size > 14.0 and len(text) < 100
IsTitleAlone(blk, text) ==
    blk.font_size > SinglePageTitleFontSize /\ len(text) < TitleMaxLength

\* a header test that takes the boundary in
IsHeaderInclusive(blk, page) == 20 * blk.bbox[2] <= page.height

\* block.bbox[1] < page_height * 0.05
IsHeader(blk, page) == 20 * blk.bbox[2] < page.height

\* block.bbox[3] > page_height * 0.95
IsFooter(blk, page) == 20 * blk.bbox[4] > 19 * page.height

_classify_text_block(blk, page) ==
    LET text == strip(blk.text)
    IN IF StartsWithBullet(text) \/ StartsWithNumber(text) THEN "list"
       ELSE IF Len(page.text_blocks) > 1 /\ IsTitleByAverage(blk, text, page) THEN "title"
       ELSE IF Len(page.text_blocks) <= 1 /\ IsTitleAlone(blk, text) THEN "title"
       ELSE IF IsHeader(blk, page) THEN "header"
       ELSE IF IsFooter(blk, page) THEN "footer"
       ELSE "paragraph"

\* sorted(set(...))
RECURSIVE SortedSeq(_)
SortedSeq(S) ==
    IF S = {} THEN <<>>
    ELSE LET lo == CHOOSE x \in S : \A y \in S : x <= y
         IN <<lo>> \o SortedSeq(S \ {lo})

\* [s[i+1] - s[i] for i in range(len(s)-1)]
Gaps(s) == [i \in 1..(Len(s) - 1) |-> s[i + 1] - s[i]]

\* every x position counts as a column start
significant_x_positions_all(x_positions) ==
    SortedSeq({x_positions[i] : i \in 1..Len(x_positions)})

\* the x positions with at least 2 blocks, sorted
significant_x_positions(x_positions) ==
    SortedSeq({x_positions[i] : i \in 1..Len(x_positions)} \ 
              {x_positions[i] : i \in {j \in 1..Len(x_positions) :
                   \A k \in 1..Len(x_positions) : x_positions[k] = x_positions[j] => k = j}})

_detect_columns(page) ==
    IF page.text_blocks = <<>> THEN 1
    ELSE
      LET x_positions == [i \in 1..Len(page.text_blocks) |-> page.text_blocks[i].bbox[1]]
          unique_x == SortedSeq({x_positions[i] : i \in 1..Len(x_positions)})
          gaps == Gaps(unique_x)
          significant == significant_x_positions(x_positions)
          column_gaps == Gaps(significant)
          large_gaps == SelectSeq(column_gaps,
                                  LAMBDA g : /\ g >= MinColumnGap
                                             /\ 5 * g * Len(gaps) >= 4 * SumSeq(gaps))
      IN IF Len(unique_x) <= 1 THEN 1
         ELSE IF gaps = <<>> THEN 1
         ELSE IF Len(significant) <= 1 THEN 1
         ELSE Len(large_gaps) + 1

(***************************************************************************)
(* The inputs of the LayoutAnalyzer calls.                                 *)
(***************************************************************************)
TextHeads ==
    {<<>>, <<"x">>, <<"x", "x">>, <<" ", "x">>,
     <<"U+2022", " ", "x">>, <<"U+25CF", "x">>, <<"U+25CB", "x">>, <<"-", " ", "x">>,
     <<"*", "x">>, <<" ", "-", "x">>, <<"-">>,
     <<"1", ".", " ">>, <<"1", ".", "x">>, <<"2", ")", "x">>, <<"1", ".">>,
     <<"1", "0", ".", "x">>, <<"1", "2", ")", "x">>, <<"1", "x", ".">>, <<".", "1", "x">>,
     <<"x", "1", ".">>}

TextTails == {0, 98, 99}

BlockTexts == [chars : TextHeads, tail : TextTails]

BBoxes ==
    {<<0, 10, 200, 30>>, <<0, 39, 200, 59>>, <<0, 40, 200, 60>>, <<0, 200, 400, 240>>,
     <<0, 740, 200, 760>>, <<0, 741, 200, 761>>, <<0, 770, 200, 790>>, <<0, 0, 200, 800>>,
     <<0, 40, 200, 790>>}

FontSizes == {12, 14, 15, 17, 18, 19}

PageFontSizes == {12, 18}

PageHeights == {800}

\* the blocks handed to _classify_text_block
ClassifyBlocks == [text : BlockTexts, bbox : BBoxes, font_size : FontSizes]

\* a block of the page, of which the classifier reads the font size
PageBlock(font_size) ==
    [text |-> [chars |-> <<"x">>, tail |-> 0], bbox |-> <<0, 200, 400, 240>>,
     font_size |-> font_size]

ClassifyPages ==
    [height : PageHeights,
     text_blocks : SeqsUpTo({PageBlock(f) : f \in PageFontSizes}, MaxPageBlocks)]

ColumnXs == {50, 150, 200, 350, 500}

\* a block of the page, of which _detect_columns reads the left edge
ColumnBlock(x) ==
    [text |-> [chars |-> <<"x">>, tail |-> 0], bbox |-> <<x, 100, x + 150, 120>>,
     font_size |-> 12]

ColumnPages ==
    [height : PageHeights,
     text_blocks : SeqsUpTo({ColumnBlock(x) : x \in ColumnXs}, MaxColumnBlocks)]

LayoutInit == ProcessorUnused /\ NoWorkers /\ NoLayout /\ NoDocument /\ NoPipeline

\* LayoutAnalyzer._classify_text_block(blk, page), for some block and page
classify_text_block ==
    /\ layout_pc = "idle"
    /\ \E blk \in ClassifyBlocks, page \in ClassifyPages :
          /\ block' = blk
          /\ page_info' = page
          /\ region_type' = _classify_text_block(blk, page)
    /\ layout_pc' = "classified"
    /\ UNCHANGED <<column_count, processor_vars, batch_vars, worker_vars, document_vars, pipeline_vars>>

\* LayoutAnalyzer._detect_columns(page), for some page
detect_columns ==
    /\ layout_pc = "idle"
    /\ \E page \in ColumnPages :
          /\ page_info' = page
          /\ column_count' = _detect_columns(page)
    /\ layout_pc' = "detected"
    /\ UNCHANGED <<block, region_type, processor_vars, batch_vars, worker_vars, document_vars, pipeline_vars>>

LayoutNext == classify_text_block \/ detect_columns

LayoutSpec == LayoutInit /\ [][LayoutNext]_vars

(***************************************************************************)
(* C17.  List precedence: every block whose stripped text starts with a    *)
(* bullet glyph, or with one or more digits followed by '.' or ')', is     *)
(* classified LIST, whatever its font size and position.  Stated for the   *)
(* blocks that have text after the '.' or ')'.                             *)
(***************************************************************************)
C17_ListPrecedence ==
    layout_pc = "classified" =>
        \E text \in {strip(block.text)} :
            \/ StartsWithBullet(text)
            \/ StartsWithNumberAnyDigits(text) /\ CharAt(text, len(text) - 1) \notin {".", ")"}
            => region_type = "list"

C19_PositionRules ==
    layout_pc = "classified" =>
        /\ region_type \in {"list", "title", "header", "footer", "paragraph"}
        /\ region_type \notin {"list", "title"} =>
              region_type = IF 20 * block.bbox[2] < page_info.height THEN "header"
                            ELSE IF 20 * block.bbox[4] > 19 * page_info.height THEN "footer"
                            ELSE "paragraph"

\* a block of 18 points whose text is too long for a title, with its top edge
\* just below the top 5% and its bottom edge in the bottom 5%: FOOTER
C19_Witness ==
    /\ layout_pc = "classified"
    /\ region_type = "footer"
    /\ block.font_size = 18
    /\ len(strip(block.text)) >= 100
    /\ 20 * block.bbox[2] = page_info.height

\* the left edges of the blocks of a page
LeftEdges(page) == {page.text_blocks[i].bbox[1] : i \in 1..Len(page.text_blocks)}

\* the left edges that at least 2 blocks of the page share
SharedEdges(page) ==
    {x \in LeftEdges(page) :
        Cardinality({i \in 1..Len(page.text_blocks) : page.text_blocks[i].bbox[1] = x}) >= 2}

\* the pairs of neighbours in a set of positions
Neighbours(S) == {p \in S \X S : p[1] < p[2] /\ ~\E c \in S : p[1] < c /\ c < p[2]}

(***************************************************************************)
(* C20.  Column detection: _detect_columns returns 1 plus the number of    *)
(* gaps between neighbouring left edges shared by at least 2 blocks that   *)
(* are >= max(150, 0.8 x the average gap between all neighbouring left     *)
(* edges); it returns 1 for a page without blocks, with at most one left   *)
(* edge or with at most one shared left edge; two blocks at x=50 and two   *)
(* at x=350 give 2; the result is always >= 1.                             *)
(***************************************************************************)
C20_ColumnDetection ==
    layout_pc = "detected" =>
        \E all \in {LeftEdges(page_info)}, shared \in {SharedEdges(page_info)} :
        \E gaps \in {Neighbours(all)} :
        \E large \in {{p \in Neighbours(shared) :
                          /\ p[2] - p[1] >= 150
                          /\ 5 * (p[2] - p[1]) * Cardinality(gaps)
                                 >= 4 * SumSeq([i \in 1..Len(SortedSeq(all)) - 1 |->
                                                  SortedSeq(all)[i + 1] - SortedSeq(all)[i]])}} :
            /\ column_count >= 1
            /\ column_count = 1 + Cardinality(large)
            /\ Len(page_info.text_blocks) = 0 \/ Cardinality(all) <= 1 \/ Cardinality(shared) <= 1
                  => column_count = 1
            /\ Len(page_info.text_blocks) = 4 /\ all = {50, 350} /\ shared = {50, 350}
                  => column_count = 2

\* two blocks at each of x=50, x=200 and x=500: the gap of 150 between the
\* first two is below 0.8 x the average gap of 225, the gap of 300 counts
C20_Witness ==
    /\ layout_pc = "detected"
    /\ Len(page_info.text_blocks) = 6
    /\ SharedEdges(page_info) = {50, 200, 500}
    /\ column_count = 2

(***************************************************************************)
(* LayoutAnalyzer.analyze_document_layout: the loop over the pages of a    *)
(* document, with the fallback result of a page whose analysis raises.     *)
(***************************************************************************)
MaxDocPages == 2

\* a text block whose text is None: block.text.strip() raises AttributeError
NoneText == [chars |-> None, tail |-> 0]

\* the exception classes that "except Exception" catches
ExceptionClasses == {"AttributeError", "TypeError", "Exception"}

\* the key (b.bbox[1], b.bbox[0]) of blk is at most that of other
KeyAtMost(blk, other) ==
    \/ blk.bbox[2] < other.bbox[2]
    \/ blk.bbox[2] = other.bbox[2] /\ blk.bbox[1] <= other.bbox[1]

\* blk put into a list sorted by the key, after the blocks of equal key
RECURSIVE InsertByKey(_, _)
InsertByKey(sorted, blk) ==
    IF sorted = <<>> THEN <<blk>>
    ELSE IF KeyAtMost(Head(sorted), blk) THEN <<Head(sorted)>> \o InsertByKey(Tail(sorted), blk)
    ELSE <<blk>> \o sorted

\* sorted(page_info.text_blocks, key=lambda b: (b.bbox[1], b.bbox[0]))
RECURSIVE sorted_blocks(_)
sorted_blocks(text_blocks) ==
    IF text_blocks = <<>> THEN <<>>
    ELSE InsertByKey(sorted_blocks(SubSeq(text_blocks, 1, Len(text_blocks) - 1)),
                     text_blocks[Len(text_blocks)])

\* the exception of _classify_text_block for the block, "" if there is none
ClassifyRaises(blk) == IF blk.text = NoneText THEN "AttributeError" ELSE ""

\* the exception of _analyze_layout_rules for the page: that of the first block that has one
RECURSIVE RulesRaise(_)
RulesRaise(blocks) ==
    IF blocks = <<>> THEN ""
    ELSE IF ClassifyRaises(Head(blocks)) # "" THEN ClassifyRaises(Head(blocks))
    ELSE RulesRaise(Tail(blocks))

LayoutRegion(blk, page) ==
    [region_type |-> _classify_text_block(blk, page), bbox |-> blk.bbox, confidence |-> "0.8",
     page_num |-> blk.page_num, text_blocks |-> <<blk>>]

_analyze_layout_rules(page) ==
    [i \in 1..Len(page.text_blocks) |-> LayoutRegion(sorted_blocks(page.text_blocks)[i], page)]

HasRegion(regions, type) == \E i \in 1..Len(regions) : regions[i].region_type = type

LayoutAnalysisResult(page, regions, columns) ==
    [page_num |-> page.page_num, page_width |-> page.width, page_height |-> page.height,
     regions |-> regions, column_count |-> columns,
     has_tables |-> HasRegion(regions, "table"), has_figures |-> HasRegion(regions, "figure")]

\* the exception that analyze_page_layout raises for the page, "" if it returns
AnalysisRaises(page) == RulesRaise(sorted_blocks(page.text_blocks))

\* what analyze_page_layout returns for a page on which it does not raise
analyze_page_layout(page, config) ==
    LayoutAnalysisResult(page, _analyze_layout_rules(page),
                         IF config.column_detection_enabled THEN _detect_columns(page) ELSE 1)

\* a fallback that keeps the column count of the page
fallback_result_with_columns(page) ==
    [page_num |-> page.page_num, page_width |-> page.width, page_height |-> page.height,
     regions |-> <<>>, column_count |-> _detect_columns(page),
     has_tables |-> FALSE, has_figures |-> FALSE]

\* the fallback result of the except branch
fallback_result(page) ==
    [page_num |-> page.page_num, page_width |-> page.width, page_height |-> page.height,
     regions |-> <<>>, column_count |-> 1, has_tables |-> FALSE, has_figures |-> FALSE]

\* the loop of analyze_document_layout over the rest of the pages: the list returned,
\* or the exception that leaves the loop
RECURSIVE DocumentLoop(_, _, _)
DocumentLoop(rest, config, out) ==
    IF rest = <<>> THEN [raised |-> "", results |-> out]
    ELSE IF AnalysisRaises(Head(rest)) = ""
         THEN DocumentLoop(Tail(rest), config,
                           Append(out, analyze_page_layout(Head(rest), config)))
    ELSE IF AnalysisRaises(Head(rest)) \in ExceptionClasses
         THEN DocumentLoop(Tail(rest), config, Append(out, fallback_result(Head(rest))))
    ELSE [raised |-> AnalysisRaises(Head(rest)), results |-> <<>>]

_analyze_document_layout(doc, config) == DocumentLoop(doc, config, <<>>)

\* the blocks of the pages of a document
DocBlock(chars, x, y, font_size) ==
    [text |-> [chars |-> chars, tail |-> 0], bbox |-> <<x, y, x + 150, y + 20>>,
     font_size |-> font_size, page_num |-> 0]

DocBlockLists ==
    {<<>>,
     <<DocBlock(<<"x">>, 50, 100, 18)>>,
     <<DocBlock(<<"x">>, 50, 200, 12), DocBlock(<<"x">>, 50, 100, 18)>>,
     <<DocBlock(None, 50, 100, 12)>>,
     <<DocBlock(<<"x">>, 50, 100, 18), DocBlock(None, 50, 200, 12)>>,
     <<DocBlock(<<"x">>, 50, 100, 12), DocBlock(<<"x">>, 350, 100, 12),
       DocBlock(<<"-", "x">>, 50, 200, 12), DocBlock(<<"x">>, 350, 200, 12)>>,
     <<DocBlock(<<"x">>, 50, 100, 12), DocBlock(<<"x">>, 350, 100, 12),
       DocBlock(<<"x">>, 50, 200, 12), DocBlock(None, 350, 200, 12)>>}

DocPageNums == {0, 1}

DocPages == [page_num : DocPageNums, width : {600}, height : PageHeights, text_blocks : DocBlockLists]

Documents == SeqsUpTo(DocPages, MaxDocPages)

LayoutConfigs == [column_detection_enabled : BOOLEAN]

\* LayoutAnalyzer(config).analyze_document_layout(doc), for some configuration and document
analyze_document_layout ==
    /\ layout_pc = "idle"
    /\ \E config \in LayoutConfigs, doc \in Documents :
          /\ layout_config' = config
          /\ document_pages' = doc
          /\ layout_results' = _analyze_document_layout(doc, config).results
          /\ layout_pc' = IF _analyze_document_layout(doc, config).raised = ""
                          THEN "analyzed" ELSE "raised"
    /\ UNCHANGED <<page_info, block, region_type, column_count>>
    /\ UNCHANGED <<processor_vars, batch_vars, worker_vars, pipeline_vars>>

DocumentNext == analyze_document_layout

DocumentSpec == LayoutInit /\ [][DocumentNext]_vars

\* C21: analyze_document_layout returns one result per page, in the order of the pages; the
\* result of a page whose analysis raises is the empty fallback with the page's number and
\* size, the result of every other page is the one analyze_page_layout gives for that page
\* alone, and no exception leaves the call.
C21_PerPageFailureIsolation ==
    layout_pc # "idle" =>
        /\ layout_pc = "analyzed"
        /\ Len(layout_results) = Len(document_pages)
        /\ \A i \in 1..Len(document_pages) :
              IF AnalysisRaises(document_pages[i]) # ""
              THEN layout_results[i] =
                       [page_num |-> document_pages[i].page_num, page_width |-> document_pages[i].width,
                        page_height |-> document_pages[i].height, regions |-> <<>>, column_count |-> 1,
                        has_tables |-> FALSE, has_figures |-> FALSE]
              ELSE layout_results[i] = analyze_page_layout(document_pages[i], layout_config)

\* a document of two pages of which the first raises and the second has two columns
C21_Witness ==
    /\ layout_pc = "analyzed"
    /\ Len(document_pages) = 2
    /\ AnalysisRaises(document_pages[1]) # ""
    /\ AnalysisRaises(document_pages[2]) = ""
    /\ Len(layout_results) = 2
    /\ layout_results[1].regions = <<>>
    /\ layout_results[2].column_count = 2
    /\ Len(layout_results[2].regions) = 4

(***************************************************************************)
(* The normalizer passes on texts with both scripts, digits, full-width    *)
(* parentheses, spaces, tabs and line endings: process() with no mapping   *)
(* or a one-term mapping, and process() again on the text it returned.     *)
(***************************************************************************)
MaxNormLen == 4

NormChars == {"J", "a", "1", "(", " ", "\n", "\r", "\t"}

NormTexts == SeqsUpTo(NormChars, MaxNormLen)

NormMappings == {<<>>, <<[original |-> <<"a", "b">>, translation |-> <<"J">>]>>}

NormConfigs ==
    {[DefaultConfig EXCEPT !.spacing_adjustment = b, !.preserve_line_breaks = c] : b, c \in BOOLEAN}

NormalizerInit ==
    /\ processor_config \in NormConfigs
    /\ _annotation_count = EmptyBag
    /\ pc = "call"
    /\ translated_text \in NormTexts
    /\ term_translations \in NormMappings
    /\ result = NoResult
    /\ log = <<>>
    /\ annotated = <<>>
    /\ calls = 0
    /\ inserted = EmptyBag
    /\ NoBatch
    /\ Detached

NormalizerNext == ProcessCall \/ Rerun

NormalizerSpec == NormalizerInit /\ [][NormalizerNext]_vars

\* the characters of text that are no spaces, in order
NonSpace(text) == SelectSeq(text, LAMBDA c : c # " ")

\* the position in text of its k-th character that is no space
RECURSIVE PosOfNonSpace(_, _)
PosOfNonSpace(text, k) ==
    IF text[1] # " "
    THEN IF k = 1 THEN 1 ELSE 1 + PosOfNonSpace(Tail(text), k - 1)
    ELSE 1 + PosOfNonSpace(Tail(text), k)

\* one of c, d is Japanese and the other an ASCII letter or digit
ScriptBoundary(c, d) ==
    \/ c \in JapaneseChars /\ d \in AsciiChars
    \/ c \in AsciiChars /\ d \in JapaneseChars

\* the first call has returned the output of the spacing pass, for a text without terms
SpacingPassDone ==
    /\ pc = "done"
    /\ calls = 1
    /\ term_translations = <<>>
    /\ processor_config.spacing_adjustment
    /\ ~processor_config.preserve_line_breaks

RECURSIVE UnixLineEndings(_)
UnixLineEndings(text) ==
    IF text = <<>> THEN <<>>
    ELSE IF text[1] = "\r"
         THEN <<"\n">> \o UnixLineEndings(IF Len(text) >= 2 /\ text[2] = "\n"
                                          THEN SubSeq(text, 3, Len(text)) ELSE Tail(text))
    ELSE <<text[1]>> \o UnixLineEndings(Tail(text))

\* the length of the longest prefix of text made of characters of S
RECURSIVE PrefixIn(_, _)
PrefixIn(text, S) ==
    IF text = <<>> \/ text[1] \notin S THEN 0 ELSE 1 + PrefixIn(Tail(text), S)

\* text with every run of 3 or more newlines cut down to 2 newlines
RECURSIVE CollapseNewlineRuns(_)
CollapseNewlineRuns(text) ==
    IF text = <<>> THEN <<>>
    ELSE IF text[1] # "\n" THEN <<text[1]>> \o CollapseNewlineRuns(Tail(text))
    ELSE LET run == PrefixIn(text, {"\n"})
         IN (IF run >= 3 THEN <<"\n", "\n">> ELSE SubSeq(text, 1, run))
                \o CollapseNewlineRuns(SubSeq(text, run + 1, Len(text)))

\* a run of whitespace with its part from the first to the last newline cut down to 2
\* newlines, if it has 2 newlines or more
CollapseBlankLines(run) ==
    LET newlines == {k \in 1..Len(run) : run[k] = "\n"}
    IN  IF Cardinality(newlines) < 2 THEN run
        ELSE SubSeq(run, 1, (CHOOSE k \in newlines : \A j \in newlines : k <= j) - 1)
                 \o <<"\n", "\n">>
                 \o SubSeq(run, (CHOOSE k \in newlines : \A j \in newlines : j <= k) + 1, Len(run))

\* text with CollapseBlankLines applied to each of its maximal runs of whitespace
RECURSIVE CollapseBlankLinesOfRuns(_)
CollapseBlankLinesOfRuns(text) ==
    IF text = <<>> THEN <<>>
    ELSE IF text[1] \notin WhitespaceChars
         THEN <<text[1]>> \o CollapseBlankLinesOfRuns(Tail(text))
    ELSE LET run == PrefixIn(text, WhitespaceChars)
         IN CollapseBlankLines(SubSeq(text, 1, run))
                \o CollapseBlankLinesOfRuns(SubSeq(text, run + 1, Len(text)))

\* the first call has returned the output of the formatting pass, for a text without terms
FormattingPassDone ==
    /\ pc = "done"
    /\ calls = 1
    /\ term_translations = <<>>
    /\ ~processor_config.spacing_adjustment
    /\ processor_config.preserve_line_breaks

NoThreeNewlines(text) ==
    \A i \in 1..(Len(text) - 2) : ~(text[i] = "\n" /\ text[i + 1] = "\n" /\ text[i + 2] = "\n")

\* C23 as stated: the formatting pass rewrites "\r\n" and "\r" to "\n", replaces every run of
\* 3 or more consecutive newlines by exactly 2 and changes nothing else; its output never
\* contains 3 consecutive newlines.
C23_LineBreakNormalization ==
    FormattingPassDone =>
        /\ result.processed_text = CollapseNewlineRuns(UnixLineEndings(translated_text))
        /\ NoThreeNewlines(result.processed_text)

\* C23, amended: the formatting pass rewrites "\r\n" and "\r" to "\n"; then, in every maximal
\* run of whitespace that holds 2 newlines or more, the part from the first to the last
\* newline (the spaces and tabs between them included) is replaced by exactly 2 newlines;
\* nothing else changes, and the output never contains 3 consecutive newlines.
C23_BlankLinesCollapsed ==
    FormattingPassDone =>
        /\ result.processed_text = CollapseBlankLinesOfRuns(UnixLineEndings(translated_text))
        /\ NoThreeNewlines(result.processed_text)

\* "\r\n\r\r" becomes "\n\n": three line endings of both kinds, cut down to 2 newlines
C23_Witness ==
    /\ FormattingPassDone
    /\ translated_text = <<"\r", "\n", "\r", "\r">>
    /\ result.processed_text = <<"\n", "\n">>

\* C24: with spacing_adjustment off, process() returns the annotated text with nothing but
\* the line-break normalization applied, and that only if preserve_line_breaks is on; with
\* both flags off it returns the annotated text verbatim, which is the input when no term
\* was annotated.
C24_NormalizerSkipFlags ==
    pc = "done" /\ calls = 1 /\ ~processor_config.spacing_adjustment =>
        /\ result.success
        /\ result.processed_text =
               IF processor_config.preserve_line_breaks
               THEN CollapseBlankLinesOfRuns(UnixLineEndings(annotated))
               ELSE annotated
        /\ log = <<>> => annotated = translated_text
        /\ log = <<>> /\ ~processor_config.preserve_line_breaks =>
               result.processed_text = translated_text

\* both flags off: "aJ\r" with the term annotated comes back as "aJ(ab)\r", script boundary
\* and carriage return untouched
C24_Witness ==
    /\ pc = "done"
    /\ calls = 1
    /\ ~processor_config.spacing_adjustment
    /\ ~processor_config.preserve_line_breaks
    /\ translated_text = <<"a", "J", "\r">>
    /\ Len(log) = 1
    /\ result.processed_text = <<"a", "J", "(", "a", "b", ")", "\r">>

\* C30: the normalizer is idempotent: process(t, {}) applied to the text that
\* process(t, {}) returned gives that text back, whichever of the two passes are enabled.
C30_NormalizerIdempotent ==
    pc = "done" /\ calls = 2 /\ term_translations = <<>> =>
        /\ result.success
        /\ result.processed_text = translated_text
        /\ processor_config.spacing_adjustment /\ processor_config.preserve_line_breaks =>
               _preserve_formatting(_adjust_spacing(translated_text)) = translated_text

\* the second call, with both passes enabled, on the output "J a\n\n" of a first call that
\* changed its input
C30_Witness ==
    /\ pc = "done"
    /\ calls = 2
    /\ term_translations = <<>>
    /\ processor_config.spacing_adjustment
    /\ processor_config.preserve_line_breaks
    /\ translated_text = <<"J", " ", "a", "\n", "\n">>
    /\ result.processed_text = translated_text

(***************************************************************************)
(* TranslationPipeline._process_page: layout analysis, then translation    *)
(* and post-processing of the text blocks outside figure and table         *)
(* regions.                                                                *)
(***************************************************************************)
MaxRegions == 2

\* the pipeline's layout_analyzer: None when layout.enabled is off, else a LayoutAnalyzer
\* whose config has column_detection_enabled (a LayoutAnalyzerConfig) or has not (the
\* ConfigManager that __init__ hands over)
Analyzers == {"None", "LayoutAnalyzerConfig", "ConfigManager"}

\* region_type_mapping.get(layout_region.region_type.value, RegionType.UNKNOWN)
region_type_mapping(value) ==
    CASE value = "text" -> "RegionType.PARAGRAPH"
      [] value = "title" -> "RegionType.TITLE"
      [] value = "paragraph" -> "RegionType.PARAGRAPH"
      [] value = "list" -> "RegionType.LIST"
      [] value = "table" -> "RegionType.TABLE"
      [] value = "figure" -> "RegionType.FIGURE"
      [] value = "header" -> "RegionType.HEADER"
      [] value = "footer" -> "RegionType.FOOTER"
      [] value = "column" -> "RegionType.PARAGRAPH"
      [] value = "section" -> "RegionType.PARAGRAPH"
      [] OTHER -> "RegionType.UNKNOWN"

\* a test that knows the members of RegionType as well as their values
IsNonTextTypeOfMembers(type) ==
    type \in {"figure", "table", "RegionType.FIGURE", "RegionType.TABLE"}

\* region.type in ["figure", "table"]: a member of the Enum equals no string
IsNonTextType(type) == type \in {"figure", "table"}

\* the center of blk lies in region, borders included
CenterInside(blk, region) ==
    /\ 2 * region.x <= 2 * blk.x + blk.width
    /\ 2 * blk.x + blk.width <= 2 * (region.x + region.width)
    /\ 2 * region.y <= 2 * blk.y + blk.height
    /\ 2 * blk.y + blk.height <= 2 * (region.y + region.height)

_is_in_non_text_region(blk, regions) ==
    \E i \in 1..Len(regions) : IsNonTextType(regions[i].type) /\ CenterInside(blk, regions[i])

\* ExtractorTextBlock(text=block.text, bbox=(...), font_size=block.font_size or 12.0, ...)
ExtractorBlock(blk, pg) ==
    [text |-> [chars |-> blk.text, tail |-> 0],
     bbox |-> <<blk.x, blk.y, blk.x + blk.width, blk.y + blk.height>>,
     font_size |-> IF blk.font_size = 0 THEN 12 ELSE blk.font_size,
     page_num |-> pg.number - 1]

\* the PageInfo made of the page
PageInfoOf(pg) ==
    [page_num |-> pg.number - 1, width |-> pg.width, height |-> pg.height,
     text_blocks |-> [i \in 1..Len(pg.text_blocks) |-> ExtractorBlock(pg.text_blocks[i], pg)]]

\* Region(type=..., x=..., y=..., width=..., height=..., confidence=...) of a layout region
RegionOf(layout_region) ==
    [type |-> region_type_mapping(layout_region.region_type),
     x |-> layout_region.bbox[1], y |-> layout_region.bbox[2],
     width |-> layout_region.bbox[3] - layout_region.bbox[1],
     height |-> layout_region.bbox[4] - layout_region.bbox[2],
     confidence |-> layout_region.confidence]

\* page.regions after the layout step: the regions of the analysis if there are any
AnalysedRegions(analyzer, pg) ==
    IF analyzer = "None" \/ _analyze_layout_rules(PageInfoOf(pg)) = <<>> THEN pg.regions
    ELSE [i \in 1..Len(pg.text_blocks) |-> RegionOf(_analyze_layout_rules(PageInfoOf(pg))[i])]

\* the exception of the layout step, "" if there is none: self.config.column_detection_enabled
\* of a config without that attribute
LayoutStepRaises(analyzer, pg) ==
    IF analyzer = "None" THEN ""
    ELSE IF AnalysisRaises(PageInfoOf(pg)) # "" THEN AnalysisRaises(PageInfoOf(pg))
    ELSE IF analyzer = "ConfigManager" THEN "AttributeError"
    ELSE ""

\* self.translator.translate(block.text).translated_text: the translator is a table
translate(text) ==
    CASE text = <<"a", "b">> -> <<"J", "K">>
      [] text = <<"b", "a">> -> <<"K", "a">>
      [] OTHER -> text

\* self.technical_terms
technical_terms == <<[original |-> <<"a", "b">>, translation |-> <<"J", "K">>]>>

\* the text of a block that is translated and post-processed
TranslatedText(text) == process(DefaultConfig, translate(text), technical_terms, EmptyBag).result.processed_text

\* the loop over page.text_blocks
TranslatedBlocks(pg, regions) ==
    [i \in 1..Len(pg.text_blocks) |->
        IF _is_in_non_text_region(pg.text_blocks[i], regions) THEN pg.text_blocks[i]
        ELSE [pg.text_blocks[i] EXCEPT !.text = TranslatedText(pg.text_blocks[i].text)]]

\* the outcome of _process_page: the exception raised, or the page returned
_process_page(analyzer, pg) ==
    IF pg.text_blocks = <<>> THEN [raised |-> "", page |-> pg]
    ELSE IF LayoutStepRaises(analyzer, pg) # ""
         THEN [raised |-> LayoutStepRaises(analyzer, pg), page |-> EmptyPage]
    ELSE [raised |-> "",
          page |-> [number |-> pg.number, width |-> pg.width, height |-> pg.height,
                    text_blocks |-> TranslatedBlocks(pg, AnalysedRegions(analyzer, pg)),
                    regions |-> AnalysedRegions(analyzer, pg)]]

\* the pages handed to _process_page
PipelineBlock(text, y) ==
    [text |-> text, x |-> 100, y |-> y, width |-> 200, height |-> 20, font_size |-> 0]

PipelineBlockLists ==
    {<<>>,
     <<PipelineBlock(<<"a", "b">>, 100)>>,
     <<PipelineBlock(<<"a", "b">>, 100), PipelineBlock(<<"b", "a">>, 300)>>,
     <<PipelineBlock(<<"b", "a">>, 300), PipelineBlock(<<"a", "b">>, 100)>>}

\* regions around the block at y = 100, one of them with the center of the block on its border
RegionPool ==
    [type : {"figure", "table", "RegionType.FIGURE", "RegionType.TABLE", "RegionType.PARAGRAPH"},
     x : {90}, y : {90, 110, 500}, width : {220}, height : {40}, confidence : {"1.0"}]

PipelinePages ==
    [number : {1}, width : {595}, height : {842}, text_blocks : PipelineBlockLists,
     regions : SeqsUpTo(RegionPool, MaxRegions)]

PipelineInit == LayoutInit

\* TranslationPipeline._process_page(pg, pg.number), for some pipeline and page
process_page ==
    /\ pipeline_pc = "idle"
    /\ \E analyzer \in Analyzers, pg \in PipelinePages :
          /\ layout_analyzer' = analyzer
          /\ source_page' = pg
          /\ \E r \in {_process_page(analyzer, pg)} :
                /\ translated_page' = r.page
                /\ pipeline_pc' = IF r.raised = "" THEN "returned" ELSE "raised"
    /\ UNCHANGED <<processor_vars, batch_vars, worker_vars, layout_vars, document_vars>>

PipelineNext == process_page

PipelineSpec == PipelineInit /\ [][PipelineNext]_vars

\* the regions of the page when its blocks are translated, as the claim has them: the
\* regions supplied with the page and those produced from the layout analysis
RegionsOfClaim ==
    source_page.regions \o
        (IF layout_analyzer = "None" THEN <<>>
         ELSE [i \in 1..Len(source_page.text_blocks) |->
                  RegionOf(_analyze_layout_rules(PageInfoOf(source_page))[i])])

\* C25: in the page that _process_page returns, a text block whose center lies inside a
\* region of type FIGURE or TABLE, supplied with the page or produced from the layout
\* analysis, has its original text (it is neither translated nor post-processed), and every
\* other block has the translated and annotated text.
C25_FigureTableExclusion ==
    pipeline_pc = "returned" /\ source_page.text_blocks # <<>> =>
        /\ Len(translated_page.text_blocks) = Len(source_page.text_blocks)
        /\ \A i \in 1..Len(source_page.text_blocks) :
              translated_page.text_blocks[i] =
                  IF \E k \in 1..Len(RegionsOfClaim) :
                         /\ IsNonTextTypeOfMembers(RegionsOfClaim[k].type)
                         /\ CenterInside(source_page.text_blocks[i], RegionsOfClaim[k])
                  THEN source_page.text_blocks[i]
                  ELSE [source_page.text_blocks[i] EXCEPT
                            !.text = TranslatedText(source_page.text_blocks[i].text)]

(***************************************************************************)
(* One process() call taken step by step: the entry, each iteration of the *)
(* loop of _add_source_term_annotations, the normalizer passes.  The first *)
(* caller makes the call on its instance; the second has not called yet.   *)
(***************************************************************************)
MaxStepLen == 4

StepTexts == SeqsUpTo(TextChars, MaxStepLen)

\* two terms with the same translation, a translation that is a substring of it, an ASCII
\* translation that also occurs in the originals, a term with a long original
StepTermPool ==
    {[original |-> <<"a", "b">>, translation |-> <<"J", "K">>],
     [original |-> <<"b", "b">>, translation |-> <<"J", "K">>],
     [original |-> <<"b", "a">>, translation |-> <<"J">>],
     [original |-> <<"a", "a">>, translation |-> <<"A">>],
     [original |-> <<"b", "a", "b", "a">>, translation |-> <<"a", "J">>]}

StepMappings ==
    {m \in SeqsUpTo(StepTermPool, MaxTerms) : \A i, j \in 1..Len(m) : i # j => m[i].original # m[j].original}

StepInputs == [text : StepTexts, terms : StepMappings]

StepsInit ==
    /\ ProcessorUnused
    /\ \E input \in StepInputs :
          workers = [i \in Instances |->
                        IF i = 1 THEN WorkerStart(input)
                        ELSE WorkerStart([text |-> <<>>, terms |-> <<>>])]
    /\ tables = [i \in Instances |-> EmptyBag]
    /\ NoLayout
    /\ NoDocument
    /\ NoPipeline

StepsNext == Enter(1) \/ Iterate(1) \/ Finish(1)

StepsSpec == StepsInit /\ [][StepsNext]_vars

\* C26: after each term step, every span recorded in annotated_positions is the span of an
\* annotation inserted by the call and delimits, in the working text as it is now, exactly
\* that annotation.
C26_ConsumedSpans ==
    \A i \in Instances :
        workers[i].pc \in {"loop", "finish", "done"} /\ workers[i].st.ok =>
            \A p \in workers[i].st.positions :
                \E k \in 1..Len(workers[i].st.log) :
                    /\ p[1] = workers[i].st.log[k].start
                    /\ p[2] = p[1] + Len(workers[i].st.log[k].annotation)
                    /\ Slice(workers[i].st.text, p[1], p[2]) = workers[i].st.log[k].annotation

\* the spans that the annotations of history h occupy in the text as it is after all of them
SpansNow(h) == {SpanBefore(h, j, Len(h) + 1) : j \in 1..Len(h)}

\* the candidates of the scan for the translation of term in the working text of st
Candidates(cfg, st, term) == FindIter(st.text, term.translation, 0, cfg.case_sensitive)

\* the candidate at offset s overlaps no span of spans
FreeOf(s, term, spans) == ~Overlaps(s, s + Len(term.translation), spans)

\* the candidate at offset s lies inside one of the annotations inserted so far
InsideAnnotation(s, term, st) ==
    \E p \in SpansNow(st.log) : p[1] <= s /\ s + Len(term.translation) <= p[2]

\* the step from st to next annotated the occurrence at offset s
AnnotatedAt(st, next, term, s) ==
    /\ Len(next.log) = Len(st.log) + 1
    /\ next.log[Len(next.log)].original = term.original
    /\ next.log[Len(next.log)].start = s
    /\ next.text = Splice(st.text, s, s + Len(term.translation), next.log[Len(next.log)].annotation)

\* the step from st to next left the term out without an error
Skipped(st, next) == next.ok /\ next.text = st.text /\ next.log = st.log

\* what C27 says of one step of the loop, for a term that passes the two filters
ScanPastOverlap(cfg, st, next, term) ==
    \E cands \in {Candidates(cfg, st, term)} :
        /\ next.ok
        /\ \A k \in 1..Len(cands) :
              (FreeOf(cands[k], term, st.positions)
                   /\ \A j \in 1..(k - 1) : ~FreeOf(cands[j], term, st.positions))
                  => AnnotatedAt(st, next, term, cands[k])
        /\ \A k \in 2..Len(cands) :
              (InsideAnnotation(cands[1], term, st)
                   /\ FreeOf(cands[k], term, SpansNow(st.log))
                   /\ \A j \in 1..(k - 1) : ~FreeOf(cands[j], term, SpansNow(st.log)))
                  => AnnotatedAt(st, next, term, cands[k])
        /\ Skipped(st, next) <=> \A k \in 1..Len(cands) : ~FreeOf(cands[k], term, st.positions)

\* C27: in each step of the loop, for a term that passes the filters, the occurrences of the
\* translation are examined from left to right and the first one that overlaps no recorded
\* span is annotated; so when the leftmost occurrence lies inside an earlier annotation and a
\* later occurrence is free, the first free one is annotated; the term is skipped, without
\* error, exactly when the translation is absent or every occurrence overlaps.
C27_ScanPastOverlap ==
    [][\A i \in Instances :
          (/\ workers[i].pc = "loop"
           /\ workers'[i] # workers[i]
           /\ ~TooShort(workers[i].cfg, Head(workers[i].todo).original)
           /\ ~ReachedMax(workers[i].cfg, tables[TableOf(i)], Head(workers[i].todo).original))
              => ScanPastOverlap(workers[i].cfg, workers[i].st, workers'[i].st, Head(workers[i].todo))]_vars

\* the position of the term with this original in the mapping
IndexIn(terms, original) == CHOOSE k \in 1..Len(terms) : terms[k].original = original

\* the terms still to be stepped come longest translation first, and terms whose translations
\* have the same length come in the order of the mapping
InMappingOrder(todo, terms) ==
    \A a, b \in 1..Len(todo) :
        a < b =>
            \/ Len(todo[a].translation) > Len(todo[b].translation)
            \/ /\ Len(todo[a].translation) = Len(todo[b].translation)
               /\ IndexIn(terms, todo[a].original) < IndexIn(terms, todo[b].original)

\* the offsets at which the translation of term occurs in text, as the configuration compares
OccurrencesOf(cfg, text, term) ==
    {s \in 0..(Len(text) - Len(term.translation)) :
        MatchesAt(text, term.translation, s, cfg.case_sensitive)}

\* both translations occur in text, and every occurrence of one overlaps every occurrence
\* of the other
OnlyOverlappingMatches(cfg, text, a, b) ==
    /\ OccurrencesOf(cfg, text, a) # {}
    /\ OccurrencesOf(cfg, text, b) # {}
    /\ \A s \in OccurrencesOf(cfg, text, a) : \A t \in OccurrencesOf(cfg, text, b) :
          s < t + Len(b.translation) /\ t < s + Len(a.translation)

\* no occurrence of the translation of another term of the mapping overlaps an occurrence
\* of the translation of a
ClearOfOtherTerms(cfg, text, terms, a, b) ==
    \A c \in 1..Len(terms) :
        c \notin {a, b} =>
            \A s \in OccurrencesOf(cfg, text, terms[a]) : \A t \in OccurrencesOf(cfg, text, terms[c]) :
                t + Len(terms[c].translation) <= s \/ s + Len(terms[a].translation) <= t

\* C28: terms whose translations have equal length are stepped in the order of the mapping;
\* process() returns what it returns for the same text and ordered mapping on a fresh
\* processor; and of two tied terms that can only match at overlapping positions of the
\* text, positions that the translation of no other term of the mapping touches, exactly
\* one is annotated.
C28_DeterministicTieBreak ==
    \A i \in Instances : \E w \in {workers[i]} :
        /\ w.pc = "loop" => InMappingOrder(w.todo, w.terms)
        /\ w.pc = "loop" /\ w.st.log = <<>> /\ w.st.text = w.text /\ Len(w.todo) = Len(w.terms) =>
               w.todo = sorted_terms(w.terms)
        /\ w.pc = "done" =>
               /\ w.result = process(w.cfg, w.text, w.terms, EmptyBag).result
               /\ \A a, b \in 1..Len(w.terms) :
                     (/\ a < b
                      /\ Len(w.terms[a].translation) = Len(w.terms[b].translation)
                      /\ ~TooShort(w.cfg, w.terms[a].original)
                      /\ ~TooShort(w.cfg, w.terms[b].original)
                      /\ OnlyOverlappingMatches(w.cfg, w.text, w.terms[a], w.terms[b])
                      /\ ClearOfOtherTerms(w.cfg, w.text, w.terms, a, b)
                      /\ ClearOfOtherTerms(w.cfg, w.text, w.terms, b, a))
                         => Cardinality({k \in 1..Len(w.st.log) :
                                            w.st.log[k].original \in {w.terms[a].original,
                                                                      w.terms[b].original}}) = 1

(***************************************************************************)
(* Two callers on one shared PostProcessor: both calls read and write the  *)
(* one _annotation_count table of the instance, and their steps interleave *)
(* at the entry of process(), at each iteration of the loop over the terms *)
(* and at the normalizer passes.                                           *)
(***************************************************************************)
\* the instance that both callers use
SharedInstance == 1

SharedInit ==
    /\ ProcessorUnused
    /\ workers \in [Instances -> {WorkerStart(input) : input \in WorkerInputs}]
    /\ tables = [i \in {SharedInstance} |-> EmptyBag]
    /\ NoLayout
    /\ NoDocument
    /\ NoPipeline

\* process() of caller i up to the loop over the terms, on the shared instance
SharedEnter(i) ==
    /\ workers[i].pc = "start"
    /\ \E w \in {workers[i]} :
          IF w.text = None
          THEN /\ workers' = [workers EXCEPT ![i].pc = "done",
                                 ![i].result = PostProcessingResult(<<>>, FALSE, "Translated text is None", 0, 0),
                                 ![i].overlapped = @ \/ OthersRunning(i)]
               /\ UNCHANGED tables
          ELSE /\ tables' = [tables EXCEPT ![SharedInstance] = ClearedCount(@)]
               /\ workers' = [workers EXCEPT
                                 ![i].pc = IF ShouldAnnotate(w.cfg, w.terms) THEN "loop" ELSE "finish",
                                 ![i].todo = IF ShouldAnnotate(w.cfg, w.terms) THEN sorted_terms(w.terms) ELSE <<>>,
                                 ![i].st = LoopStart(w.text, EmptyBag),
                                 ![i].overlapped = @ \/ OthersRunning(i)]
    /\ UNCHANGED <<processor_vars, batch_vars, layout_vars, document_vars, pipeline_vars>>

\* one iteration of the loop of caller i, on the table of the shared instance
SharedIterate(i) ==
    /\ workers[i].pc = "loop"
    /\ \E w \in {workers[i]} :
       \E s \in {TermStep(w.cfg, [w.st EXCEPT !.count = tables[SharedInstance]], Head(w.todo))} :
          /\ tables' = [tables EXCEPT ![SharedInstance] = s.count]
          /\ workers' = [workers EXCEPT
                            ![i].st = s,
                            ![i].todo = Tail(w.todo),
                            ![i].pc = IF ~s.ok THEN "done"
                                      ELSE IF Tail(w.todo) = <<>> THEN "finish" ELSE "loop",
                            ![i].result = IF ~s.ok THEN FailureResult(w.text, s.text, s.error)
                                          ELSE w.result,
                            ![i].overlapped = @ \/ OthersRunning(i)]
    /\ UNCHANGED <<processor_vars, batch_vars, layout_vars, document_vars, pipeline_vars>>

SharedNext == \E i \in Instances : SharedEnter(i) \/ SharedIterate(i) \/ Finish(i)

SharedSpec == SharedInit /\ [][SharedNext]_vars

\* C29: each of two process() calls whose steps interleave on one shared PostProcessor
\* returns the result it returns when run alone, and every term that is annotated when the
\* call runs alone is annotated in the call's output.
C29_SharedInstanceCallsIndependent ==
    \A i \in Instances :
        workers[i].pc = "done" =>
            \E alone \in {process(workers[i].cfg, workers[i].text, workers[i].terms, EmptyBag)} :
                /\ workers[i].result = alone.result
                /\ \A k \in 1..Len(alone.log) :
                      \E l \in 1..Len(workers[i].st.log) :
                          workers[i].st.log[l].original = alone.log[k].original

====
